---- MODULE Spec2Model ----
(***************************************************************************)
(* A model of the Honey Badger epoch driver of src/src/honey_badger.rs.    *)
(* One HoneyBadger instance is a record with the fields of the struct; the *)
(* methods are operators from a record to a result record                  *)
(* [s, fl, err] (the instance after the call, the fault log returned, and  *)
(* whether the call returned Err).  The `?` operator of the source is the  *)
(* "IF r.err THEN r" of the operators: the mutations made before the error *)
(* stay.                                                                   *)
(*                                                                         *)
(* The collaborators that are not part of src/ (CommonSubset, the          *)
(* threshold cryptography, bincode, NetworkInfo) are modelled from the     *)
(* interfaces the specification gives for them.                            *)
(***************************************************************************)
EXTENDS Integers, Sequences, FiniteSets, TLC

VARIABLES hb, net, batches, shares_sent

vars == <<hb, net, batches, shares_sent>>

(***************************************************************************)
(* Bounds of the model.                                                    *)
(***************************************************************************)
\* Entry points are no longer called on an instance that reached this epoch.
MaxEpoch == 2
\* The environment sends at most this many messages into one incoming_queue entry.
MaxQueue == 3
\* The largest epoch a peer puts into a message.
MaxMsgEpoch == 2
\* The number of epochs the nodes of the network specification run.
NetEpochs == 2

\* max_future_epochs as configured through the builder.
MaxFutureEpochs == 1

(***************************************************************************)
(* BTreeMap helpers: a map is a function, the empty map is << >>.          *)
(***************************************************************************)
EmptyMap == << >>

Put(m, k, v) == [x \in (DOMAIN m) \cup {k} |-> IF x = k THEN v ELSE m[x]]

Remove(m, k) == [x \in (DOMAIN m) \ {k} |-> m[x]]

Has(m, k) == k \in DOMAIN m

MinOf(S) == CHOOSE x \in S : \A y \in S : x <= y

(***************************************************************************)
(* NetworkInfo.                                                            *)
(***************************************************************************)
NetInfo(uid, validators, f) ==
    [our_uid |-> uid, validators |-> validators, num_faulty |-> f]

is_node_validator(ni, id) == id \in ni.validators

is_validator(ni) == ni.our_uid \in ni.validators

(***************************************************************************)
(* bincode and the threshold cryptography.                                 *)
(***************************************************************************)
\* bincode::serialize of a contribution, and bytes that are no contribution.
SerializeContribution(c) == <<"contribution", c>>

GarbageBytes == <<"garbage">>

DeserializeContribution(bytes) ==
    IF bytes[1] = "contribution"
    THEN [ok |-> TRUE, value |-> bytes[2]]
    ELSE [ok |-> FALSE, value |-> "none"]

\* PublicKey::encrypt; wf is the ciphertext's self-verification witness.
Encrypt(plain) == [plain |-> plain, wf |-> TRUE]

MalformedCiphertext == [plain |-> GarbageBytes, wf |-> FALSE]

SerializeCiphertext(ct) == <<"ciphertext", ct>>

JunkBytes == <<"junk">>

DeserializeCiphertext(bytes) ==
    IF bytes[1] = "ciphertext"
    THEN [ok |-> TRUE, value |-> bytes[2]]
    ELSE [ok |-> FALSE, value |-> MalformedCiphertext]

CiphertextVerify(ct) == ct.wf

\* SecretKeyShare::decrypt_share: None for a ciphertext that fails its check.
DecryptShare(uid, ct) ==
    [some |-> ct.wf, share |-> [by |-> uid, of |-> ct]]

\* PublicKeyShare::verify_decryption_share.
PkVerifyDecryptionShare(sender, share, ct) ==
    share.by = sender /\ share.of = ct

\* PublicKeySet::decrypt: succeeds iff more than f valid shares are supplied.
Decrypt(ni, shares, ct) ==
    LET valid == {id \in DOMAIN shares : PkVerifyDecryptionShare(id, shares[id], ct)}
    IN  [ok |-> Cardinality(valid) > ni.num_faulty, plain |-> ct.plain]

(***************************************************************************)
(* CommonSubset: an instance collects proposals (one per proposer, the     *)
(* first one wins) and outputs once, when it holds N - f of them.  A       *)
(* message conveys a map of proposals, or is one the instance fails on.    *)
(* On input the instance sends its proposal to all; on a message that     *)
(* brings a proposal it did not hold it answers the sender.                *)
(***************************************************************************)
CommonSubsetNew == [vals |-> EmptyMap, decided |-> FALSE]

\* Target::All and Target::Node(id).
All == [kind |-> "All", node |-> 0]

Node(id) == [kind |-> "Node", node |-> id]

AcsMerge(vals, props) ==
    [p \in (DOMAIN vals) \cup (DOMAIN props) |->
        IF p \in DOMAIN vals THEN vals[p] ELSE props[p]]

AcsAdvance(ni, cs, vals, messages) ==
    IF ~cs.decided /\ Cardinality(DOMAIN vals) >= Cardinality(ni.validators) - ni.num_faulty
    THEN [cs |-> [cs EXCEPT !.vals = vals, !.decided = TRUE],
          output |-> <<vals>>, messages |-> messages, err |-> FALSE]
    ELSE [cs |-> [cs EXCEPT !.vals = vals],
          output |-> << >>, messages |-> messages, err |-> FALSE]

AcsValue(props) == [bad |-> FALSE, props |-> props]

AcsBadMessage == [bad |-> TRUE, props |-> EmptyMap]

CommonSubsetInput(ni, cs, bytes) ==
    LET props == Put(EmptyMap, ni.our_uid, bytes)
    IN  AcsAdvance(ni, cs, AcsMerge(cs.vals, props),
                   <<[target |-> All, message |-> AcsValue(props)]>>)

CommonSubsetHandleMessage(ni, cs, sender, msg) ==
    IF msg.bad
    THEN [cs |-> cs, output |-> << >>, messages |-> << >>, err |-> TRUE]
    ELSE AcsAdvance(ni, cs, AcsMerge(cs.vals, msg.props),
                    IF DOMAIN msg.props \subseteq DOMAIN cs.vals
                    THEN << >>
                    ELSE <<[target |-> Node(sender), message |-> AcsValue(EmptyMap)]>>)

CommonSubsetTerminated(cs) == cs.decided

(***************************************************************************)
(* Messages, targets and results.                                          *)
(***************************************************************************)
CommonSubsetContent(cs_msg) ==
    [kind |-> "CommonSubset", cs_msg |-> cs_msg, proposer_id |-> 0,
     share |-> [by |-> 0, of |-> MalformedCiphertext]]

DecryptionShareContent(proposer_id, share) ==
    [kind |-> "DecryptionShare", cs_msg |-> AcsBadMessage,
     proposer_id |-> proposer_id, share |-> share]

with_epoch(content, epoch) == [epoch |-> epoch, content |-> content]

TargetAll(message) == [target |-> All, message |-> message]

Fault(id, kind) == [node |-> id, kind |-> kind]

OkResult(s, fl) == [s |-> s, fl |-> fl, err |-> FALSE]

ErrResult(s) == [s |-> s, fl |-> << >>, err |-> TRUE]

\* The record of what a call did, kept beside the fields for the properties:
\* which contents were dispatched, which instance was fed, which output was
\* consumed or discarded, which batch was pushed.
Event(ev, epoch, sender, info) ==
    [ev |-> ev, epoch |-> epoch, sender |-> sender, info |-> info]

Note(s, event) == [s EXCEPT !.trace = Append(@, event)]

\* fault_log.extend(r?): an error of r is returned as it is, with the fields
\* as they are at that point.
Extend(fault_log, r) == IF r.err THEN r ELSE OkResult(r.s, fault_log \o r.fl)

(***************************************************************************)
(* HoneyBadgerBuilder::build.                                              *)
(***************************************************************************)
build(netinfo, max_future_epochs) ==
    [netinfo |-> netinfo,
     epoch |-> 0,
     has_input |-> FALSE,
     common_subsets |-> EmptyMap,
     max_future_epochs |-> max_future_epochs,
     messages |-> << >>,
     output |-> << >>,
     incoming_queue |-> EmptyMap,
     received_shares |-> EmptyMap,
     decrypted_contributions |-> EmptyMap,
     ciphertexts |-> EmptyMap,
     trace |-> << >>]

(***************************************************************************)
(* The decryption coordinator.                                             *)
(***************************************************************************)
verify_decryption_share(s, sender_id, share, ciphertext) ==
    IF is_node_validator(s.netinfo, sender_id)
    THEN PkVerifyDecryptionShare(sender_id, share, ciphertext)
    ELSE FALSE

\* all_contributions_decrypted satisfied by the first decrypted contribution.
some_contribution_decrypted(s) ==
    IF ~Has(s.ciphertexts, s.epoch)
    THEN FALSE
    ELSE s.decrypted_contributions # EmptyMap

\* all_contributions_decrypted satisfied while accepted ciphertexts are
\* still undecrypted.
all_contributions_decrypted_partly(s) ==
    IF ~Has(s.ciphertexts, s.epoch)
    THEN FALSE
    ELSE DOMAIN s.decrypted_contributions \subseteq DOMAIN s.ciphertexts[s.epoch]

all_contributions_decrypted(s) ==
    IF ~Has(s.ciphertexts, s.epoch)
    THEN FALSE
    ELSE DOMAIN s.ciphertexts[s.epoch] = DOMAIN s.decrypted_contributions

\* try_decrypt_proposer_contribution content with a single stored share.
try_decrypt_proposer_contribution_one_share(s, proposer_id) ==
    IF Has(s.decrypted_contributions, proposer_id) THEN s
    ELSE IF ~(Has(s.received_shares, s.epoch)
              /\ Has(s.received_shares[s.epoch], proposer_id)) THEN s
    ELSE IF Has(s.ciphertexts, s.epoch) /\ Has(s.ciphertexts[s.epoch], proposer_id)
         THEN [s EXCEPT !.decrypted_contributions =
                 Put(@, proposer_id, s.ciphertexts[s.epoch][proposer_id].plain)]
         ELSE s

try_decrypt_proposer_contribution(s, proposer_id) ==
    IF Has(s.decrypted_contributions, proposer_id) THEN s
    ELSE IF ~(Has(s.received_shares, s.epoch)
              /\ Has(s.received_shares[s.epoch], proposer_id)) THEN s
    ELSE LET shares == s.received_shares[s.epoch][proposer_id] IN
         IF Cardinality(DOMAIN shares) <= s.netinfo.num_faulty THEN s
         ELSE IF Has(s.ciphertexts, s.epoch) /\ Has(s.ciphertexts[s.epoch], proposer_id)
         THEN LET r == Decrypt(s.netinfo, shares, s.ciphertexts[s.epoch][proposer_id]) IN
              IF r.ok
              THEN [s EXCEPT !.decrypted_contributions = Put(@, proposer_id, r.plain)]
              ELSE s
         ELSE s

verify_pending_decryption_shares(s, proposer_id, ciphertext) ==
    IF Has(s.received_shares, s.epoch) /\ Has(s.received_shares[s.epoch], proposer_id)
    THEN LET sender_shares == s.received_shares[s.epoch][proposer_id] IN
         {sender_id \in DOMAIN sender_shares :
            ~verify_decryption_share(s, sender_id, sender_shares[sender_id], ciphertext)}
    ELSE {}

\* remove_incorrect_decryption_shares leaving the shares where they are.
remove_incorrect_decryption_shares_keeps(s, proposer_id, incorrect_senders) == s

remove_incorrect_decryption_shares(s, proposer_id, incorrect_senders) ==
    IF Has(s.received_shares, s.epoch) /\ Has(s.received_shares[s.epoch], proposer_id)
    THEN [s EXCEPT !.received_shares[s.epoch][proposer_id] =
            [id \in (DOMAIN @) \ incorrect_senders |-> @[id]]]
    ELSE s

\* The faults of a set of nodes, in the order of the BTreeSet.
RECURSIVE FaultsOf(_, _)
FaultsOf(ids, kind) ==
    IF ids = {} THEN << >>
    ELSE <<Fault(MinOf(ids), kind)>> \o FaultsOf(ids \ {MinOf(ids)}, kind)

RECURSIVE TryDecryptAll(_, _)
TryDecryptAll(s, proposer_ids) ==
    IF proposer_ids = {} THEN s
    ELSE TryDecryptAll(try_decrypt_proposer_contribution(s, MinOf(proposer_ids)),
                       proposer_ids \ {MinOf(proposer_ids)})

\* The contributions of a batch and the faults of the plaintexts that do not
\* deserialize, in proposer order.
\* BatchContributions without the test that the plaintext deserializes.
BatchContributionsUnfiltered(decrypted) ==
    [p \in DOMAIN decrypted |-> DeserializeContribution(decrypted[p]).value]

BatchContributions(decrypted) ==
    LET good == {p \in DOMAIN decrypted : DeserializeContribution(decrypted[p]).ok}
    IN  [p \in good |-> DeserializeContribution(decrypted[p]).value]

BatchFaults(decrypted) ==
    FaultsOf({p \in DOMAIN decrypted : ~DeserializeContribution(decrypted[p]).ok},
             "BatchDeserializationFailed")

(***************************************************************************)
(* The handlers.  They call each other as in the source: handling a        *)
(* message may output a batch, which advances the epoch, which admits the  *)
(* deferred messages, which are handled in turn.                           *)
(***************************************************************************)
RECURSIVE try_output_batch(_)
RECURSIVE update_epoch(_)
RECURSIVE AfterDeferred(_)
RECURSIVE AdmitDeferred(_, _, _, _)
RECURSIVE AdmitRest(_, _, _, _)
RECURSIVE AfterShare(_, _, _, _, _, _, _)
RECURSIVE InstallCiphertexts(_)
RECURSIVE OutputsRest(_, _, _)
RECURSIVE try_decrypt_and_output_batch(_)
RECURSIVE handle_message_content(_, _, _, _)
RECURSIVE handle_common_subset_message(_, _, _, _)
RECURSIVE handle_decryption_share_message(_, _, _, _, _)
RECURSIVE send_decryption_shares(_, _)
RECURSIVE SendSharesLoop(_, _, _, _, _)
RECURSIVE send_decryption_share(_, _, _)
RECURSIVE process_output(_, _, _)
RECURSIVE ProcessOutputs(_, _, _)

try_output_batch(s) ==
    IF ~all_contributions_decrypted(s)
    THEN OkResult(s, << >>)
    ELSE LET batch == [epoch |-> s.epoch,
                       contributions |-> BatchContributions(s.decrypted_contributions)]
             fault_log == BatchFaults(s.decrypted_contributions)
             pushed == Note([s EXCEPT !.output = Append(@, batch)],
                            Event("batch", s.epoch, 0, batch))
         IN  Extend(fault_log, update_epoch(pushed))

\* update_epoch with the increment of the epoch left out.
update_epoch_keeps_epoch(s) ==
    LET cleared == [s EXCEPT !.ciphertexts = Remove(@, s.epoch),
                             !.decrypted_contributions = EmptyMap,
                             !.received_shares = Remove(@, s.epoch),
                             !.has_input = FALSE]
        max_epoch == cleared.epoch + 1 + cleared.max_future_epochs
        queued == IF Has(cleared.incoming_queue, max_epoch)
                  THEN cleared.incoming_queue[max_epoch] ELSE << >>
        taken == [cleared EXCEPT !.incoming_queue = Remove(@, max_epoch)]
    IN  AfterDeferred(AdmitDeferred(taken, max_epoch, queued, << >>))

\* update_epoch with the clearing of decrypted_contributions left out.
update_epoch_keeps_contributions(s) ==
    LET cleared == [s EXCEPT !.ciphertexts = Remove(@, s.epoch),
                             !.received_shares = Remove(@, s.epoch),
                             !.epoch = @ + 1,
                             !.has_input = FALSE]
        max_epoch == cleared.epoch + cleared.max_future_epochs
        queued == IF Has(cleared.incoming_queue, max_epoch)
                  THEN cleared.incoming_queue[max_epoch] ELSE << >>
        taken == [cleared EXCEPT !.incoming_queue = Remove(@, max_epoch)]
    IN  AfterDeferred(AdmitDeferred(taken, max_epoch, queued, << >>))

\* update_epoch with the removal of received_shares[epoch] left out.
update_epoch_keeps_shares(s) ==
    LET noted == Note(s, Event("advance", s.epoch, 0, [s EXCEPT !.trace = << >>]))
        cleared == [noted EXCEPT !.ciphertexts = Remove(@, s.epoch),
                                 !.decrypted_contributions = EmptyMap,
                                 !.epoch = @ + 1,
                                 !.has_input = FALSE]
        max_epoch == cleared.epoch + cleared.max_future_epochs
        queued == IF Has(cleared.incoming_queue, max_epoch)
                  THEN cleared.incoming_queue[max_epoch] ELSE << >>
        taken == [cleared EXCEPT !.incoming_queue = Remove(@, max_epoch)]
    IN  AfterDeferred(AdmitDeferred(taken, max_epoch, queued, << >>))

\* update_epoch leaving the deferred messages of max_epoch in the queue.
update_epoch_skips_deferred(s) ==
    LET cleared == [s EXCEPT !.ciphertexts = Remove(@, s.epoch),
                             !.decrypted_contributions = EmptyMap,
                             !.received_shares = Remove(@, s.epoch),
                             !.epoch = @ + 1,
                             !.has_input = FALSE]
    IN  AfterDeferred(OkResult(cleared, << >>))

update_epoch(s) ==
    LET noted == Note(s, Event("advance", s.epoch, 0, [s EXCEPT !.trace = << >>]))
        cleared == [noted EXCEPT !.ciphertexts = Remove(@, s.epoch),
                                 !.decrypted_contributions = EmptyMap,
                                 !.received_shares = Remove(@, s.epoch),
                                 !.epoch = @ + 1,
                                 !.has_input = FALSE]
        max_epoch == cleared.epoch + cleared.max_future_epochs
        queued == IF Has(cleared.incoming_queue, max_epoch)
                  THEN cleared.incoming_queue[max_epoch] ELSE << >>
        taken == [cleared EXCEPT !.incoming_queue = Remove(@, max_epoch)]
    IN  AfterDeferred(AdmitDeferred(taken, max_epoch, queued, << >>))

\* update_epoch after its loop returned r: the shares received for the new
\* epoch are handled.
AfterDeferred(r) ==
    LET noted == Note(r.s, Event("advanced", r.s.epoch, 0, [r.s EXCEPT !.trace = << >>]))
    IN  IF r.err THEN ErrResult(noted)
        ELSE Extend(r.fl, try_decrypt_and_output_batch(noted))

\* The for loop of update_epoch over the removed queue entry.
AdmitDeferred(s, max_epoch, queued, fault_log) ==
    IF queued = << >>
    THEN OkResult(s, fault_log)
    ELSE AdmitRest(handle_message_content(s, Head(queued).sender, max_epoch,
                                          Head(queued).content),
                   max_epoch, Tail(queued), fault_log)

\* The loop after handle_message_content returned r for one message.
AdmitRest(r, max_epoch, queued, fault_log) ==
    IF r.err THEN r
    ELSE AdmitDeferred(r.s, max_epoch, queued, fault_log \o r.fl)

try_decrypt_and_output_batch(s) ==
    IF ~Has(s.ciphertexts, s.epoch)
    THEN OkResult(s, << >>)
    ELSE try_output_batch(TryDecryptAll(s, DOMAIN s.ciphertexts[s.epoch]))

handle_message_content(s, sender_id, epoch, content) ==
    LET noted == Note(s, Event("dispatch", epoch, sender_id, content))
    IN  IF content.kind = "CommonSubset"
        THEN handle_common_subset_message(noted, sender_id, epoch, content.cs_msg)
        ELSE handle_decryption_share_message(noted, sender_id, epoch,
                                             content.proposer_id, content.share)

remove_terminated(s, from_epoch) ==
    [s EXCEPT !.common_subsets =
        [e \in {k \in DOMAIN @ :
                  ~(from_epoch <= k /\ k < s.epoch /\ CommonSubsetTerminated(@[k]))}
            |-> @[e]]]

\* handle_common_subset_message after process_output returned r.
Terminated(r, epoch) ==
    IF r.err THEN r ELSE OkResult(remove_terminated(r.s, epoch), r.fl)

handle_common_subset_message(s, sender_id, epoch, message) ==
    IF ~Has(s.common_subsets, epoch) /\ epoch < s.epoch
    THEN OkResult(s, << >>)
    ELSE LET cs == IF Has(s.common_subsets, epoch)
                   THEN s.common_subsets[epoch] ELSE CommonSubsetNew
             step == CommonSubsetHandleMessage(s.netinfo, cs, sender_id, message)
             fed == Note([s EXCEPT !.common_subsets = Put(@, epoch, step.cs)],
                         Event("acs_message", epoch, sender_id, step.output))
         IN  IF step.err THEN ErrResult(fed)
             ELSE Terminated(process_output(fed, step, [some |-> TRUE, value |-> epoch]),
                             epoch)

\* handle_decryption_share_message that stores the share without verifying it.
handle_decryption_share_message_unverified(s, sender_id, epoch, proposer_id, share) ==
    LET of_epoch == IF Has(s.received_shares, epoch)
                    THEN s.received_shares[epoch] ELSE EmptyMap
        of_proposer == IF Has(of_epoch, proposer_id)
                       THEN of_epoch[proposer_id] ELSE EmptyMap
        stored == [s EXCEPT !.received_shares =
                     Put(@, epoch, Put(of_epoch, proposer_id,
                                       Put(of_proposer, sender_id, share)))]
    IN  IF epoch = stored.epoch
        THEN try_decrypt_and_output_batch(
                 try_decrypt_proposer_contribution(stored, proposer_id))
        ELSE OkResult(stored, << >>)

handle_decryption_share_message(s, sender_id, epoch, proposer_id, share) ==
    IF /\ Has(s.ciphertexts, epoch)
       /\ Has(s.ciphertexts[epoch], proposer_id)
       /\ ~verify_decryption_share(s, sender_id, share, s.ciphertexts[epoch][proposer_id])
    THEN OkResult(s, <<Fault(sender_id, "UnverifiedDecryptionShareSender")>>)
    ELSE LET of_epoch == IF Has(s.received_shares, epoch)
                         THEN s.received_shares[epoch] ELSE EmptyMap
             of_proposer == IF Has(of_epoch, proposer_id)
                            THEN of_epoch[proposer_id] ELSE EmptyMap
             stored == [s EXCEPT !.received_shares =
                          Put(@, epoch, Put(of_epoch, proposer_id,
                                            Put(of_proposer, sender_id, share)))]
         IN  IF epoch = stored.epoch
             THEN try_decrypt_and_output_batch(
                      try_decrypt_proposer_contribution(stored, proposer_id))
             ELSE OkResult(stored, << >>)

\* Ok((bool, FaultLog)) of send_decryption_share.
Valid(r, valid) == [s |-> r.s, fl |-> r.fl, err |-> r.err, valid |-> valid]

\* send_decryption_share that keeps our share to itself: no message is sent.
send_decryption_share_unsent(s, proposer_id, ciphertext) ==
    IF ~is_validator(s.netinfo)
    THEN Valid(OkResult(s, << >>), CiphertextVerify(ciphertext))
    ELSE LET d == DecryptShare(s.netinfo.our_uid, ciphertext) IN
         IF ~d.some
         THEN Valid(OkResult(s, << >>), FALSE)
         ELSE Valid(handle_decryption_share_message(s, s.netinfo.our_uid,
                                                    s.epoch, proposer_id, d.share),
                    TRUE)

send_decryption_share(s, proposer_id, ciphertext) ==
    IF ~is_validator(s.netinfo)
    THEN Valid(OkResult(s, << >>), CiphertextVerify(ciphertext))
    ELSE LET d == DecryptShare(s.netinfo.our_uid, ciphertext) IN
         IF ~d.some
         THEN Valid(OkResult(s, << >>), FALSE)
         ELSE LET content == DecryptionShareContent(proposer_id, d.share)
                  message == TargetAll(with_epoch(content, s.epoch))
                  sent == Note([s EXCEPT !.messages = Append(@, message)],
                               Event("share", s.epoch, proposer_id, message))
              IN  Valid(handle_decryption_share_message(sent, s.netinfo.our_uid,
                                                        s.epoch, proposer_id, d.share),
                        TRUE)

\* The for loop of send_decryption_shares over cs_output, in proposer order;
\* ciphertexts is the local map of the accepted ones.
\* What the loop leaves: the fields, the faults, the accepted ciphertexts.
Looped(s, fl, err, ciphertexts) ==
    [s |-> s, fl |-> fl, err |-> err, ciphertexts |-> ciphertexts]

\* The loop after send_decryption_share returned r for one proposer.
AfterShare(r, cs_output, proposer_id, ciphertext, rest, ciphertexts, fault_log) ==
    IF r.err THEN Looped(r.s, << >>, TRUE, ciphertexts)
    ELSE IF r.valid
    THEN SendSharesLoop(try_decrypt_proposer_contribution(r.s, proposer_id),
                        cs_output, rest, Put(ciphertexts, proposer_id, ciphertext),
                        fault_log \o r.fl)
    ELSE SendSharesLoop(r.s, cs_output, rest, ciphertexts,
                        Append(fault_log \o r.fl,
                               Fault(proposer_id, "ShareDecryptionFailed")))

SendSharesLoop(s, cs_output, todo, ciphertexts, fault_log) ==
    IF todo = {}
    THEN Looped(s, fault_log, FALSE, ciphertexts)
    ELSE LET proposer_id == MinOf(todo)
             rest == todo \ {proposer_id}
             d == DeserializeCiphertext(cs_output[proposer_id])
         IN  IF ~d.ok
             THEN SendSharesLoop(s, cs_output, rest, ciphertexts,
                      Append(fault_log, Fault(proposer_id, "InvalidCiphertext")))
             ELSE LET incorrect == verify_pending_decryption_shares(s, proposer_id, d.value)
                      cleaned == remove_incorrect_decryption_shares(s, proposer_id, incorrect)
                      faults == FaultsOf(incorrect, "UnverifiedDecryptionShareSender")
                  IN  AfterShare(send_decryption_share(cleaned, proposer_id, d.value),
                                 cs_output, proposer_id, d.value, rest, ciphertexts,
                                 fault_log \o faults)

\* The end of send_decryption_shares without the attempt to decrypt from
\* the shares already stored.
InstallCiphertextsNoDecrypt(l) ==
    IF l.err THEN ErrResult(l.s)
    ELSE Extend(l.fl, try_output_batch(
                          Note([l.s EXCEPT !.ciphertexts = Put(@, l.s.epoch, l.ciphertexts)],
                               Event("ciphertexts", l.s.epoch, 0, l.ciphertexts))))

\* send_decryption_shares after its loop left l.
InstallCiphertexts(l) ==
    IF l.err THEN ErrResult(l.s)
    ELSE Extend(l.fl, try_decrypt_and_output_batch(
                          Note([l.s EXCEPT !.ciphertexts = Put(@, l.s.epoch, l.ciphertexts)],
                               Event("ciphertexts", l.s.epoch, 0, l.ciphertexts))))

send_decryption_shares(s, cs_output) ==
    InstallCiphertexts(SendSharesLoop(s, cs_output, DOMAIN cs_output, EmptyMap, << >>))

extend_with_epoch(queue, epoch, msgs) ==
    queue \o [i \in 1..Len(msgs) |->
                [target |-> msgs[i].target,
                 message |-> with_epoch(CommonSubsetContent(msgs[i].message), epoch)]]

\* The for loop of process_output over the outputs of the step.
ProcessOutputs(s, outputs, fault_log) ==
    IF outputs = << >>
    THEN OkResult(s, fault_log)
    ELSE OutputsRest(send_decryption_shares(
                         Note(s, Event("consumed", s.epoch, 0, Head(outputs))),
                         Head(outputs)),
                     Tail(outputs), fault_log)

\* The loop after send_decryption_shares returned r for one output.
OutputsRest(r, outputs, fault_log) ==
    IF r.err THEN r
    ELSE ProcessOutputs(r.s, outputs, fault_log \o r.fl)

process_output(s, step, epoch) ==
    LET queued == Note([s EXCEPT !.messages =
                                   extend_with_epoch(@, s.epoch, step.messages)],
                       Event("messages", s.epoch, 0,
                             [given |-> step.messages,
                              queued |-> extend_with_epoch(<< >>, s.epoch, step.messages)]))
    IN  IF ~epoch.some \/ epoch.value = queued.epoch
        THEN ProcessOutputs(queued, step.output, << >>)
        ELSE OkResult(
                 IF step.output = << >> THEN queued
                 ELSE Note(queued, Event("discarded", epoch.value, 0, Head(step.output))),
                 << >>)

\* propose with the assignment of has_input left out.
propose_leaves_has_input(s, proposal) ==
    IF ~is_validator(s.netinfo)
    THEN OkResult(s, << >>)
    ELSE LET cs == IF Has(s.common_subsets, s.epoch)
                   THEN s.common_subsets[s.epoch] ELSE CommonSubsetNew
             ser_prop == SerializeContribution(proposal)
             ciphertext == Encrypt(ser_prop)
             step == CommonSubsetInput(s.netinfo, cs, SerializeCiphertext(ciphertext))
             fed == Note([s EXCEPT !.common_subsets = Put(@, s.epoch, step.cs)],
                         Event("acs_input", s.epoch, s.netinfo.our_uid, step.output))
         IN  IF step.err THEN ErrResult(fed)
             ELSE process_output(fed, step, [some |-> FALSE, value |-> 0])

propose(s, proposal) ==
    IF ~is_validator(s.netinfo)
    THEN OkResult(s, << >>)
    ELSE LET cs == IF Has(s.common_subsets, s.epoch)
                   THEN s.common_subsets[s.epoch] ELSE CommonSubsetNew
             ser_prop == SerializeContribution(proposal)
             ciphertext == Encrypt(ser_prop)
             step == CommonSubsetInput(s.netinfo, cs, SerializeCiphertext(ciphertext))
             fed == Note([s EXCEPT !.common_subsets = Put(@, s.epoch, step.cs),
                                   !.has_input = TRUE],
                         Event("acs_input", s.epoch, s.netinfo.our_uid, step.output))
         IN  IF step.err THEN ErrResult(fed)
             ELSE process_output(fed, step, [some |-> FALSE, value |-> 0])

(***************************************************************************)
(* The entry points.  A call returns [s, ok, step]: Ok(step) drains the    *)
(* two internal queues into the step; Err returns no step.                 *)
(***************************************************************************)
EmptyStep == [output |-> << >>, fault_log |-> << >>, messages |-> << >>]

step(s, fault_log) ==
    [s |-> [s EXCEPT !.output = << >>, !.messages = << >>],
     ok |-> TRUE,
     step |-> [output |-> s.output, fault_log |-> fault_log, messages |-> s.messages]]

Failed(s) == [s |-> s, ok |-> FALSE, step |-> EmptyStep]

\* Ok(self.step(fault_log)) of a handler that returned r, or its error.
Return(r) == IF r.err THEN Failed(r.s) ELSE step(r.s, r.fl)

input(s, contribution) == Return(propose(s, contribution))

\* handle_message with the sender checked only when the content is dispatched.
handle_message_checks_late(s, sender_id, message) ==
    IF message.epoch > s.epoch + s.max_future_epochs
    THEN LET entry == IF Has(s.incoming_queue, message.epoch)
                      THEN s.incoming_queue[message.epoch] ELSE << >>
         IN  step([s EXCEPT !.incoming_queue =
                     Put(@, message.epoch,
                         Append(entry, [sender |-> sender_id, content |-> message.content]))],
                  << >>)
    ELSE IF ~is_node_validator(s.netinfo, sender_id)
    THEN Failed(s)
    ELSE IF message.epoch = s.epoch
    THEN Return(handle_message_content(s, sender_id, message.epoch, message.content))
    ELSE step(s, << >>)

handle_message(s, sender_id, message) ==
    IF ~is_node_validator(s.netinfo, sender_id)
    THEN Failed(s)
    ELSE IF message.epoch > s.epoch + s.max_future_epochs
    THEN LET entry == IF Has(s.incoming_queue, message.epoch)
                      THEN s.incoming_queue[message.epoch] ELSE << >>
         IN  step([s EXCEPT !.incoming_queue =
                     Put(@, message.epoch,
                         Append(entry, [sender |-> sender_id, content |-> message.content]))],
                  << >>)
    ELSE IF message.epoch = s.epoch
    THEN Return(handle_message_content(s, sender_id, message.epoch, message.content))
    ELSE step(s, << >>)

(***************************************************************************)
(* One instance and its environment: the validators are 1..4 with f = 1,   *)
(* the instance is validator 1 or an observer that is no validator, and    *)
(* the peers (validators and one outsider) send it any message of a small  *)
(* universe, for any epoch, in any order.                                  *)
(***************************************************************************)
Validators == {1, 2, 3, 4}

Outsider == 5

SpecNetInfo(uid) == NetInfo(uid, Validators, 1)

SpecSenders == {2, 3, Outsider}

CtX == Encrypt(SerializeContribution("x"))

CtG == Encrypt(GarbageBytes)

Bytes(ct) == SerializeCiphertext(ct)

\* The proposals a CommonSubset message conveys: three of them complete the
\* instance (N - f = 3), two need the local input as the third.
ProposalsTwo == [p \in {2, 3} |-> IF p = 2 THEN Bytes(CtG) ELSE JunkBytes]

ProposalsMixed == Put(ProposalsTwo, 4, Bytes(MalformedCiphertext))

ProposalsJunk == [p \in {2, 3, 4} |-> JunkBytes]

SpecProposals == {ProposalsMixed, ProposalsJunk, ProposalsTwo}

ShareOf(sender, ct) == [by |-> sender, of |-> ct]

\* What a peer sends: validator 2 the CommonSubset messages and its shares of
\* the two ciphertexts that get accepted, validator 3 a right and a wrong
\* share for proposer 2.
SpecContents(sender) ==
    IF sender = 3
    THEN {DecryptionShareContent(2, ShareOf(3, ct)) : ct \in {CtG, CtX}}
    ELSE {CommonSubsetContent(AcsValue(props)) : props \in SpecProposals}
         \cup {CommonSubsetContent(AcsBadMessage)}
         \cup {DecryptionShareContent(2, ShareOf(sender, CtG)),
               DecryptionShareContent(1, ShareOf(sender, CtX))}

\* Beyond the window a peer sends one completing CommonSubset message, the
\* message the instance fails on, or one share.
FarContents(sender) ==
    IF sender = 3
    THEN {DecryptionShareContent(2, ShareOf(3, CtG))}
    ELSE {CommonSubsetContent(AcsValue(ProposalsMixed)), CommonSubsetContent(AcsBadMessage),
          DecryptionShareContent(2, ShareOf(sender, CtG))}

SpecMessages(s, sender) ==
    {with_epoch(content, e) : content \in SpecContents(sender),
                              e \in 0..(s.epoch + s.max_future_epochs)}
    \cup {with_epoch(content, e) : content \in FarContents(sender),
                                   e \in (s.epoch + s.max_future_epochs + 1)..MaxMsgEpoch}

\* The batches a call pushed, in order.
RECURSIVE Pushed(_)
Pushed(trace) ==
    IF trace = << >> THEN << >>
    ELSE IF Head(trace).ev = "batch"
    THEN <<Head(trace).info>> \o Pushed(Tail(trace))
    ELSE Pushed(Tail(trace))

\* The decryption shares a call enqueued for sending: (epoch, proposer).
SharesSent(trace) ==
    {[epoch |-> trace[i].epoch, proposer |-> trace[i].sender] :
        i \in {j \in 1..Len(trace) : trace[j].ev = "share"}}

\* The instance after a call, the batches it has pushed so far, and the
\* shares it has enqueued so far for the epochs it has not completed.
Settle(n, r) ==
    /\ hb' = [hb EXCEPT ![n] = [r.s EXCEPT !.trace = << >>]]
    /\ batches' = [batches EXCEPT ![n] = @ \o Pushed(r.s.trace)]
    /\ shares_sent' = [shares_sent EXCEPT ![n] =
                         {x \in @ \cup SharesSent(r.s.trace) : x.epoch >= r.s.epoch}]

InputAllowed(s) == s.epoch < MaxEpoch

DeliveryAllowed(s, message) ==
    /\ s.epoch < MaxEpoch
    /\ (/\ message.epoch > s.epoch + s.max_future_epochs
        /\ Has(s.incoming_queue, message.epoch))
       => Len(s.incoming_queue[message.epoch]) < MaxQueue

Input(n, contribution) ==
    /\ n \in DOMAIN hb
    /\ InputAllowed(hb[n])
    /\ Settle(n, input(hb[n], contribution))
    /\ UNCHANGED net

HandleMessage(n, sender, message) ==
    /\ n \in DOMAIN hb
    /\ message \in SpecMessages(hb[n], sender)
    /\ DeliveryAllowed(hb[n], message)
    /\ Settle(n, handle_message(hb[n], sender, message))
    /\ UNCHANGED net

SpecNodes == {1, Outsider}

Init ==
    /\ \E uid \in SpecNodes :
         hb = [n \in {uid} |-> build(SpecNetInfo(uid), MaxFutureEpochs)]
    /\ net = {}
    /\ batches = [n \in DOMAIN hb |-> << >>]
    /\ shares_sent = [n \in DOMAIN hb |-> {}]

\* Every message a peer may send to some instance, whatever its epoch.
AllMessages ==
    {with_epoch(content, e) : content \in UNION {SpecContents(sender) : sender \in SpecSenders},
                              e \in 0..MaxMsgEpoch}

Next ==
    \/ \E n \in SpecNodes : Input(n, "x")
    \/ \E n \in SpecNodes : \E sender \in SpecSenders : \E message \in AllMessages :
          HandleMessage(n, sender, message)

Spec == Init /\ [][Next]_vars

(***************************************************************************)
(* Properties of one call.  A property of a call is stated of every        *)
(* reachable instance and every call of the kind on it: Probe is what a    *)
(* peer may put into a message, for the epochs up to one past the window.  *)
(***************************************************************************)
KnownSenders == SpecSenders \cap Validators

ProbeEpochs(s) == 0..(s.epoch + s.max_future_epochs + 1)

Fields(s) == [s EXCEPT !.trace = << >>]

\* The (sender, content) pairs a call dispatched for epoch m, in order.
RECURSIVE Dispatched(_, _)
Dispatched(trace, m) ==
    IF trace = << >> THEN << >>
    ELSE IF Head(trace).ev = "dispatch" /\ Head(trace).epoch = m
    THEN <<[sender |-> Head(trace).sender, content |-> Head(trace).info]>>
         \o Dispatched(Tail(trace), m)
    ELSE Dispatched(Tail(trace), m)

Events(trace, ev) == {i \in 1..Len(trace) : trace[i].ev = ev}

\* C2: the batches an instance has emitted carry the epochs 0, 1, 2, ... in
\* this order, and its epoch is the number of batches emitted so far.
C2_BatchesCountEpochs ==
    \A n \in DOMAIN hb :
        /\ hb[n].epoch = Len(batches[n])
        /\ \A i \in 1..Len(batches[n]) : batches[n][i].epoch = i - 1

C2_Witness ==
    \E n \in DOMAIN hb : Len(batches[n]) = 2 /\ hb[n].epoch = 2

\* C4: a message of a validator for an epoch m with
\* epoch <= m <= epoch + max_future_epochs is dispatched at once: the call
\* starts by handling the content for epoch m, a CommonSubset content by the
\* instance of epoch m.
C4_WindowMessageDispatched ==
    \A n \in DOMAIN hb : \A sender \in KnownSenders :
    \A content \in SpecContents(sender) :
    \A m \in (hb[n].epoch)..(hb[n].epoch + hb[n].max_future_epochs) :
        LET r == handle_message(hb[n], sender, with_epoch(content, m))
        IN  /\ r.s.trace # << >>
            /\ Head(r.s.trace) = Event("dispatch", m, sender, content)
            /\ content.kind = "CommonSubset" =>
                  /\ Len(r.s.trace) >= 2
                  /\ r.s.trace[2].ev = "acs_message"
                  /\ r.s.trace[2].epoch = m
                  /\ Has(r.s.common_subsets, m)

\* C5: a message of a validator for an epoch m > epoch + max_future_epochs
\* is appended to incoming_queue[m], no other field changes, and the step
\* returned is empty.
C5_FutureMessageOnlyQueued ==
    \A n \in DOMAIN hb : \A sender \in KnownSenders :
    \A content \in SpecContents(sender) :
    \A m \in {e \in ProbeEpochs(hb[n]) : e > hb[n].epoch + hb[n].max_future_epochs} :
        LET s == hb[n]
            r == handle_message(s, sender, with_epoch(content, m))
            entry == IF Has(s.incoming_queue, m) THEN s.incoming_queue[m] ELSE << >>
        IN  /\ r.ok
            /\ r.step = EmptyStep
            /\ r.s = [s EXCEPT !.incoming_queue =
                        Put(@, m, Append(entry, [sender |-> sender, content |-> content]))]

\* C6: a message of a validator for an epoch m < epoch changes no field and
\* the step returned is empty.
C6_PastMessageNoOp ==
    \A n \in DOMAIN hb : \A sender \in KnownSenders :
    \A content \in SpecContents(sender) :
    \A m \in 0..(hb[n].epoch - 1) :
        LET r == handle_message(hb[n], sender, with_epoch(content, m))
        IN  r.ok /\ r.step = EmptyStep /\ r.s = hb[n]

\* C7: in every call, the entry incoming_queue[m] is dispatched, whole and in
\* the order of insertion, and removed, when the epoch reaches
\* m - max_future_epochs, and is untouched before.
C7_DeferredProcessedOnce ==
    \A n \in DOMAIN hb : \A sender \in KnownSenders :
    \A message \in SpecMessages(hb[n], sender) :
    \A m \in DOMAIN hb[n].incoming_queue :
        LET s == hb[n]
            r == handle_message(s, sender, message)
        IN  IF r.s.epoch + s.max_future_epochs >= m
            THEN /\ Dispatched(r.s.trace, m) = s.incoming_queue[m]
                 /\ ~Has(r.s.incoming_queue, m)
            ELSE /\ Dispatched(r.s.trace, m) = << >>
                 /\ Has(r.s.incoming_queue, m)
                 /\ SubSeq(r.s.incoming_queue[m], 1, Len(s.incoming_queue[m]))
                       = s.incoming_queue[m]

\* C8: a message of a sender that is no validator is refused with an error
\* and changes no field, whatever its epoch and content.
C8_UnknownSenderRefused ==
    \A n \in DOMAIN hb : \A sender \in SpecSenders \ Validators :
    \A content \in SpecContents(sender) : \A m \in ProbeEpochs(hb[n]) :
        LET r == handle_message(hb[n], sender, with_epoch(content, m))
        IN  ~r.ok /\ r.s = hb[n]

\* An instance that has advanced, with messages deferred and shares stored:
\* past, current, window and future epochs all exist for it.
C8_Witness ==
    \E n \in DOMAIN hb :
        /\ hb[n].epoch = 1
        /\ hb[n].received_shares # EmptyMap
        /\ hb[n].common_subsets # EmptyMap
        /\ \E m \in ProbeEpochs(hb[n]) : m > hb[n].epoch + hb[n].max_future_epochs
        /\ ~handle_message(hb[n], Outsider,
                           with_epoch(CommonSubsetContent(AcsValue(ProposalsMixed)), 3)).ok

\* C9: input on a node that is no validator returns Ok, changes no field
\* and returns an empty step.
C9_ObserverInputNoOp ==
    \A n \in DOMAIN hb :
        ~is_validator(hb[n].netinfo) =>
            LET r == input(hb[n], "x")
            IN  r.ok /\ r.step = EmptyStep /\ r.s = hb[n]

\* C10: a second input in an epoch is refused with an error, or feeds no
\* proposal into the instance of the epoch and enqueues no message.
C10_SecondInputRefusedOrNoOp ==
    \A n \in DOMAIN hb :
        (is_validator(hb[n].netinfo) /\ hb[n].has_input) =>
            LET r == input(hb[n], "x")
            IN  \/ ~r.ok
                \/ /\ Events(r.s.trace, "acs_input") = {}
                   /\ r.step.messages = << >>
                   /\ Fields(r.s) = hb[n]

(***************************************************************************)
(* A network.  Nodes 1 and 2 run the algorithm; what a call returns in its *)
(* step is sent to the other node, and the messages in flight are          *)
(* delivered in any order.  In NetSpec, of four validators one may be      *)
(* faulty: validator 3 proposes in every epoch, validator 4 is silent, so  *)
(* the instance of an epoch outputs the proposals of 1, 2 and 3 at every   *)
(* node.  In LiveSpec the validators are nodes 1 and 2, both honest.       *)
(***************************************************************************)
Nodes == {1, 2}

Contribution(n) == IF n = 1 THEN "x" ELSE "y"

PeerProposal(epoch) ==
    IF epoch = 0 THEN Bytes(Encrypt(SerializeContribution("z"))) ELSE Bytes(CtG)

PeerMessage(epoch) ==
    with_epoch(CommonSubsetContent(AcsValue(Put(EmptyMap, 3, PeerProposal(epoch)))), epoch)

Packet(to, from, message) == [to |-> to, from |-> from, message |-> message]

\* Target::All of a node: the other node.
Sent(n, messages) ==
    {Packet(pair[1], n, messages[pair[2]].message) :
        pair \in {q \in (Nodes \ {n}) \X (1..Len(messages)) :
                    \/ messages[q[2]].target.kind = "All"
                    \/ messages[q[2]].target.node = q[1]}}

NetSettle(n, r, inflight) ==
    /\ Settle(n, r)
    /\ net' = inflight \cup Sent(n, r.step.messages)

NetInput(n) ==
    /\ hb[n].epoch < NetEpochs
    /\ ~hb[n].has_input
    /\ NetSettle(n, input(hb[n], Contribution(n)), net)

NetDeliver(p) ==
    NetSettle(p.to, handle_message(hb[p.to], p.from, p.message), net \ {p})

NetInit ==
    /\ hb = [n \in Nodes |-> build(SpecNetInfo(n), MaxFutureEpochs)]
    /\ net = {Packet(n, 3, PeerMessage(e)) : n \in Nodes, e \in 0..(NetEpochs - 1)}
    /\ batches = [n \in Nodes |-> << >>]
    /\ shares_sent = [n \in Nodes |-> {}]

NetNext ==
    \/ \E n \in Nodes : NetInput(n)
    \/ \E p \in net : NetDeliver(p)

NetSpec == NetInit /\ [][NetNext]_vars

LiveNetInfo(uid) == NetInfo(uid, Nodes, 0)

LiveInit ==
    /\ hb = [n \in Nodes |-> build(LiveNetInfo(n), MaxFutureEpochs)]
    /\ net = {}
    /\ batches = [n \in Nodes |-> << >>]
    /\ shares_sent = [n \in Nodes |-> {}]

LiveSpec ==
    /\ LiveInit
    /\ [][NetNext]_vars
    /\ \A n \in Nodes : WF_vars(NetInput(n))
    /\ WF_vars(\E p \in net : NetDeliver(p))

\* C1: two nodes that both emitted a batch for an epoch emitted the same
\* batch for it: the same epoch and the same map of proposer to
\* contribution.
C1_Agreement ==
    \A n1 \in DOMAIN hb : \A n2 \in DOMAIN hb :
    \A i \in 1..Len(batches[n1]) : \A j \in 1..Len(batches[n2]) :
        batches[n1][i].epoch = batches[n2][j].epoch =>
            batches[n1][i] = batches[n2][j]

\* Both nodes emitted the batches of two epochs, the first one with the
\* contributions of the three proposers.
C1_Witness ==
    /\ \A n \in Nodes : Has(hb, n) /\ Len(batches[n]) = NetEpochs
    /\ DOMAIN batches[1][1].contributions = {1, 2, 3}
    /\ batches[1][1].contributions[2] = "y"

\* C3: when both validators are honest, each calls input once in every
\* epoch it reaches and every message sent has been delivered, every node
\* has emitted a batch for every epoch: the network does not come to rest
\* before.
C3_Progress ==
    (/\ net = {}
     /\ \A n \in DOMAIN hb : hb[n].has_input \/ hb[n].epoch = NetEpochs)
    => \A n \in DOMAIN hb : Len(batches[n]) = NetEpochs

(***************************************************************************)
(* Properties of the decryption coordinator and of the bookkeeping.        *)
(***************************************************************************)
\* Whether the call that returned r fed the encrypted contribution into the
\* instance of the epoch that was current when it started on s.
FedInput(s, r, contribution) ==
    /\ \E i \in Events(r.s.trace, "acs_input") :
          r.s.trace[i].epoch = s.epoch /\ r.s.trace[i].sender = s.netinfo.our_uid
    /\ Has(r.s.common_subsets, s.epoch)
    /\ Has(r.s.common_subsets[s.epoch].vals, s.netinfo.our_uid)
    /\ r.s.common_subsets[s.epoch].vals[s.netinfo.our_uid]
          = SerializeCiphertext(Encrypt(SerializeContribution(contribution)))

\* C11 (as stated): when input of a validator returns success, has_input is
\* true and the encrypted proposal has been fed into the instance of the
\* epoch that was current when the call started.
C11_InputSetsHasInput ==
    \A n \in DOMAIN hb :
        is_validator(hb[n].netinfo) =>
            LET r == input(hb[n], "x")
            IN  r.ok => r.s.has_input /\ FedInput(hb[n], r, "x")

\* C11 (amended): when input of a validator returns success, the encrypted
\* proposal has been fed into the instance of the epoch that was current
\* when the call started, and has_input is true exactly if the call did not
\* advance the epoch.
C11_InputPostcondition ==
    \A n \in DOMAIN hb :
        is_validator(hb[n].netinfo) =>
            LET r == input(hb[n], "x")
            IN  r.ok => /\ FedInput(hb[n], r, "x")
                        /\ r.s.has_input <=> (r.s.epoch = hb[n].epoch)

\* An input that completes the epoch, and one that does not.
C11_Witness ==
    /\ \E n \in DOMAIN hb :
          /\ is_validator(hb[n].netinfo)
          /\ input(hb[n], "x").ok
          /\ input(hb[n], "x").s.epoch = hb[n].epoch + 1
          /\ ~input(hb[n], "x").s.has_input
          /\ hb[n].epoch = 1

MaxOf(S) == CHOOSE x \in S : \A y \in S : y <= x

\* The ciphertexts accepted for epoch e when the call from s reaches the
\* i-th step of its trace: installed earlier in the call, or before it.
CiphertextsAt(s, trace, i, e) ==
    LET installs == {j \in 1..(i - 1) :
                        trace[j].ev = "ciphertexts" /\ trace[j].epoch = e}
    IN  IF installs # {} THEN trace[MaxOf(installs)].info
        ELSE IF Has(s.ciphertexts, e) THEN s.ciphertexts[e] ELSE EmptyMap

CiphertextKeysAt(s, trace, i, e) == DOMAIN CiphertextsAt(s, trace, i, e)

\* Whether a share of ours for (e, p) was enqueued for all peers before the
\* i-th step of the call: in an earlier call, or earlier in this one.
ShareEnqueuedBefore(earlier, trace, i, e, p) ==
    \/ [epoch |-> e, proposer |-> p] \in earlier
    \/ \E j \in 1..(i - 1) :
          /\ trace[j].ev = "share" /\ trace[j].epoch = e /\ trace[j].sender = p
          /\ trace[j].info.target = All
          /\ trace[j].info.message.epoch = e
          /\ trace[j].info.message.content.kind = "DecryptionShare"
          /\ trace[j].info.message.content.proposer_id = p

BatchAfterShares(s, earlier, r) ==
    \A i \in Events(r.s.trace, "batch") :
        \A p \in CiphertextKeysAt(s, r.s.trace, i, r.s.trace[i].epoch) :
            ShareEnqueuedBefore(earlier, r.s.trace, i, r.s.trace[i].epoch, p)

\* C12: on a validator, when the batch of an epoch e is pushed to output, a
\* DecryptionShare message for all peers, tagged with e, has been enqueued
\* before for every proposer p in ciphertexts[e].
C12_SharesBeforeBatch ==
    \A n \in DOMAIN hb :
        is_validator(hb[n].netinfo) =>
            /\ BatchAfterShares(hb[n], shares_sent[n], input(hb[n], "x"))
            /\ \A sender \in KnownSenders : \A message \in SpecMessages(hb[n], sender) :
                  BatchAfterShares(hb[n], shares_sent[n],
                                   handle_message(hb[n], sender, message))

\* A call of a validator that pushes a batch for two accepted ciphertexts
\* whose shares were enqueued by an earlier call.
C12_Witness ==
    \E n \in DOMAIN hb :
        /\ is_validator(hb[n].netinfo)
        /\ Cardinality(shares_sent[n]) >= 2
        /\ \E sender \in KnownSenders : \E message \in SpecMessages(hb[n], sender) :
              LET r == handle_message(hb[n], sender, message)
              IN  /\ Events(r.s.trace, "batch") # {}
                  /\ Events(r.s.trace, "share") = {}
                  /\ Has(hb[n].ciphertexts, hb[n].epoch)
                  /\ Cardinality(DOMAIN hb[n].ciphertexts[hb[n].epoch]) >= 2

\* The ciphertexts of an ACS output that are accepted: the bytes that
\* deserialize as a ciphertext that is valid.
AcceptedOf(output) ==
    [p \in {q \in DOMAIN output :
              /\ DeserializeCiphertext(output[q]).ok
              /\ CiphertextVerify(DeserializeCiphertext(output[q]).value)}
        |-> DeserializeCiphertext(output[p]).value]

\* The proposers of accepted ciphertexts whose plaintext is a contribution.
WellFormed(accepted) ==
    {p \in DOMAIN accepted : DeserializeContribution(accepted[p].plain).ok}

\* The ciphertexts a call installs are the accepted ones of the ACS output
\* it consumed for that epoch.
InstalledFromOutput(r) ==
    \A j \in Events(r.s.trace, "ciphertexts") :
        LET consumed == {k \in 1..(j - 1) :
                            /\ r.s.trace[k].ev = "consumed"
                            /\ r.s.trace[k].epoch = r.s.trace[j].epoch}
        IN  /\ consumed # {}
            /\ r.s.trace[j].info = AcceptedOf(r.s.trace[MaxOf(consumed)].info)

\* Every batch a call pushes holds the contributions of the well-formed
\* proposers among the accepted ciphertexts of its epoch, and no other.
BatchOfOutput(s, r) ==
    /\ InstalledFromOutput(r)
    /\ \A i \in Events(r.s.trace, "batch") :
          LET batch == r.s.trace[i].info
              accepted == CiphertextsAt(s, r.s.trace, i, batch.epoch)
              quorum == Cardinality(s.netinfo.validators) - s.netinfo.num_faulty
          IN  /\ batch.contributions =
                    [p \in WellFormed(accepted) |->
                        DeserializeContribution(accepted[p].plain).value]
              /\ DOMAIN batch.contributions \subseteq s.netinfo.validators
              /\ Cardinality(WellFormed(accepted)) >= quorum
                    => Cardinality(DOMAIN batch.contributions) >= quorum

\* C13: the batch of epoch e holds a contribution for exactly the proposers
\* of the ACS output for e whose bytes are an accepted ciphertext and whose
\* plaintext deserializes; its keys are validators; it holds at least N - f
\* contributions when the output holds at least N - f well-formed proposals.
C13_BatchContents ==
    /\ \A n \in DOMAIN hb : BatchOfOutput(hb[n], input(hb[n], Contribution(n)))
    /\ \A p \in net : BatchOfOutput(hb[p.to], handle_message(hb[p.to], p.from, p.message))

\* Node 1 is about to push the batch of epoch 1, from which the plaintext of
\* proposer 3 is left out, after a batch of epoch 0 with N - f contributions.
C13_Witness ==
    /\ Has(hb, 1) /\ Len(batches[1]) = 1
    /\ Cardinality(DOMAIN batches[1][1].contributions)
          = Cardinality(Validators) - hb[1].netinfo.num_faulty
    /\ \E p \in net :
          LET r == handle_message(hb[p.to], p.from, p.message)
          IN  /\ p.to = 1
              /\ \E i \in Events(r.s.trace, "batch") :
                    /\ DOMAIN r.s.trace[i].info.contributions = {1, 2}
                    /\ 3 \in CiphertextKeysAt(hb[1], r.s.trace, i, 1)

\* The DecryptionShare contents a sender may send.
ShareContents(sender) ==
    {content \in SpecContents(sender) : content.kind = "DecryptionShare"}

\* Whether the share of a content fails verification against the ciphertext
\* known for (e, content.proposer_id).
KnownAndWrong(s, sender, e, content) ==
    /\ Has(s.ciphertexts, e)
    /\ Has(s.ciphertexts[e], content.proposer_id)
    /\ ~verify_decryption_share(s, sender, content.share,
                                s.ciphertexts[e][content.proposer_id])

\* C14: a DecryptionShare of sender for (e, p) that fails verification
\* against the known ciphertexts[e][p] is not stored, received_shares is
\* unchanged, exactly the fault (sender, UnverifiedDecryptionShareSender) is
\* returned, nothing is decrypted, no batch is pushed, and the call succeeds.
C14_WrongShareRejected ==
    \A n \in DOMAIN hb : \A sender \in KnownSenders :
    \A content \in ShareContents(sender) : \A e \in ProbeEpochs(hb[n]) :
        KnownAndWrong(hb[n], sender, e, content) =>
            LET r == handle_message(hb[n], sender, with_epoch(content, e))
            IN  /\ r.ok
                /\ r.step.fault_log = <<Fault(sender, "UnverifiedDecryptionShareSender")>>
                /\ r.s.received_shares = hb[n].received_shares
                /\ r.s.decrypted_contributions = hb[n].decrypted_contributions
                /\ r.s.ciphertexts = hb[n].ciphertexts
                /\ r.s.epoch = hb[n].epoch
                /\ Events(r.s.trace, "batch") = {}

\* Sender 3 has a verified share stored for proposer 2 and now sends one
\* that does not verify against the known ciphertext.
C14_Witness ==
    \E n \in DOMAIN hb : \E content \in ShareContents(3) :
        LET s == hb[n]
        IN  /\ KnownAndWrong(s, 3, s.epoch, content)
            /\ Has(s.received_shares, s.epoch)
            /\ Has(s.received_shares[s.epoch], content.proposer_id)
            /\ Has(s.received_shares[s.epoch][content.proposer_id], 3)
            /\ handle_message(s, 3, with_epoch(content, s.epoch)).ok

\* The proposers of an ACS output whose bytes are no ciphertext.
Undecodable(output) ==
    {p \in DOMAIN output : ~DeserializeCiphertext(output[p]).ok}

InLog(fault, fault_log) == \E i \in 1..Len(fault_log) : fault_log[i] = fault

\* The call succeeds and reports the fault of every proposer of a consumed
\* ACS output whose bytes are no ciphertext.
InvalidCiphertextFaulted(r) ==
    \A k \in Events(r.s.trace, "consumed") :
        \A p \in Undecodable(r.s.trace[k].info) :
            r.ok /\ InLog(Fault(p, "InvalidCiphertext"), r.step.fault_log)

\* What a call does about the proposers of a consumed ACS output whose bytes
\* are no ciphertext: no share message, no entry in ciphertexts, no
\* contribution in a batch.
InvalidCiphertextSkipped(s, earlier, r) ==
    /\ \A k \in Events(r.s.trace, "consumed") :
          \A p \in Undecodable(r.s.trace[k].info) :
              LET e == r.s.trace[k].epoch
              IN  /\ [epoch |-> e, proposer |-> p] \notin earlier \cup SharesSent(r.s.trace)
                  /\ \A j \in Events(r.s.trace, "ciphertexts") :
                        r.s.trace[j].epoch = e => ~Has(r.s.trace[j].info, p)
                  /\ Has(r.s.ciphertexts, e) => ~Has(r.s.ciphertexts[e], p)
                  /\ \A i \in Events(r.s.trace, "batch") :
                        r.s.trace[i].epoch = e => ~Has(r.s.trace[i].info.contributions, p)
    /\ InstalledFromOutput(r)
    /\ \A i \in Events(r.s.trace, "batch") :
          DOMAIN r.s.trace[i].info.contributions
             \subseteq CiphertextKeysAt(s, r.s.trace, i, r.s.trace[i].epoch)

\* C15: a proposer p of the ACS output of the current epoch whose bytes are
\* no ciphertext gets the fault (p, InvalidCiphertext) in the step of the
\* call, no decryption share is sent for p, p is not installed in
\* ciphertexts[epoch], and p does not block the batch: no instance rests
\* with every accepted ciphertext decrypted, and the batch holds no
\* contribution of p.
C15_InvalidCiphertextSkipped ==
    \A n \in DOMAIN hb :
        /\ ~all_contributions_decrypted(hb[n])
        /\ \A sender \in KnownSenders : \A message \in SpecMessages(hb[n], sender) :
              LET r == handle_message(hb[n], sender, message)
              IN  /\ InvalidCiphertextFaulted(r)
                  /\ InvalidCiphertextSkipped(hb[n], shares_sent[n], r)

\* The part of C15 that holds: p is skipped in every call, and faulted in
\* the step of every call that succeeds.
C15_SkippedAndFaultedOnSuccess ==
    \A n \in DOMAIN hb :
        /\ ~all_contributions_decrypted(hb[n])
        /\ \A sender \in KnownSenders : \A message \in SpecMessages(hb[n], sender) :
              LET r == handle_message(hb[n], sender, message)
              IN  /\ r.ok => InvalidCiphertextFaulted(r)
                  /\ InvalidCiphertextSkipped(hb[n], shares_sent[n], r)

\* The shares stored for (e, p), as a map from sender to share.
StoredShares(s, e, p) ==
    IF Has(s.received_shares, e) /\ Has(s.received_shares[e], p)
    THEN s.received_shares[e][p]
    ELSE EmptyMap

\* Every stored share of a known ciphertext verifies against it, and the
\* senders of stored shares are validators, one share each.
SharesVerified(s) ==
    /\ \A e \in DOMAIN s.ciphertexts : \A p \in DOMAIN s.ciphertexts[e] :
          \A sender \in DOMAIN StoredShares(s, e, p) :
              verify_decryption_share(s, sender, StoredShares(s, e, p)[sender],
                                      s.ciphertexts[e][p])
    /\ \A e \in DOMAIN s.received_shares : \A p \in DOMAIN s.received_shares[e] :
          DOMAIN s.received_shares[e][p] \subseteq s.netinfo.validators

\* The senders whose share stored in s for (e, p) fails against ciphertext.
WrongSenders(s, e, p, ciphertext) ==
    {sender \in DOMAIN StoredShares(s, e, p) :
        ~verify_decryption_share(s, sender, StoredShares(s, e, p)[sender], ciphertext)}

\* A call that installs the ciphertexts of epoch e removes the shares stored
\* before that fail against them, and its step faults their senders.
PendingSharesCleaned(s, r) ==
    \A j \in Events(r.s.trace, "ciphertexts") :
        LET e == r.s.trace[j].epoch
            installed == r.s.trace[j].info
        IN  \A p \in DOMAIN installed :
            \A sender \in WrongSenders(s, e, p, installed[p]) :
                /\ Has(StoredShares(r.s, e, p), sender)
                      => StoredShares(r.s, e, p)[sender] # StoredShares(s, e, p)[sender]
                /\ r.ok => InLog(Fault(sender, "UnverifiedDecryptionShareSender"),
                                 r.step.fault_log)

ContributionsOfEpoch(s) ==
    \A p \in DOMAIN s.decrypted_contributions :
        /\ Has(s.ciphertexts, s.epoch)
        /\ Has(s.ciphertexts[s.epoch], p)
        /\ s.decrypted_contributions[p] = s.ciphertexts[s.epoch][p].plain

\* C17: after every entry point, no key of ciphertexts and no key of
\* received_shares is an epoch greater than the current epoch, and
\* decrypted_contributions holds only contributions of the current epoch.
C17_NoFutureEntries ==
    \A n \in DOMAIN hb :
        /\ \A e \in DOMAIN hb[n].ciphertexts : e <= hb[n].epoch
        /\ \A e \in DOMAIN hb[n].received_shares : e <= hb[n].epoch
        /\ ContributionsOfEpoch(hb[n])

\* C17 as the code has it: after every entry point, no key of ciphertexts is
\* greater than the current epoch, no key of received_shares is greater than
\* epoch + max_future_epochs, and decrypted_contributions holds only
\* contributions of the current epoch.
C17_NoEntriesBeyondWindow ==
    \A n \in DOMAIN hb :
        /\ \A e \in DOMAIN hb[n].ciphertexts : e <= hb[n].epoch
        /\ \A e \in DOMAIN hb[n].received_shares :
              e <= hb[n].epoch + hb[n].max_future_epochs
        /\ ContributionsOfEpoch(hb[n])

\* An instance that advanced holds a share for an epoch after its own, and
\* a contribution decrypted in its own epoch.
C17_Witness ==
    \E n \in DOMAIN hb :
        /\ hb[n].epoch > 0
        /\ \E e \in DOMAIN hb[n].received_shares : e > hb[n].epoch
        /\ hb[n].decrypted_contributions # EmptyMap

\* The epochs before the current one whose ACS instance is still held
\* although it has terminated.
TerminatedPast(s) ==
    {e \in DOMAIN s.common_subsets :
        e < s.epoch /\ CommonSubsetTerminated(s.common_subsets[e])}

\* C18: after every entry point, common_subsets holds no instance of an
\* epoch less than the current epoch that reports terminated, whichever
\* call (input, CommonSubset message, DecryptionShare message) advanced
\* the epoch.
C18_TerminatedReclaimed ==
    \A n \in DOMAIN hb : TerminatedPast(hb[n]) = {}

\* The messages a call pushed to self.messages, in order: the ACS messages
\* of a step and the decryption shares.
RECURSIVE Enqueued(_)
Enqueued(trace) ==
    IF trace = << >> THEN << >>
    ELSE IF Head(trace).ev = "messages"
    THEN Head(trace).info.queued \o Enqueued(Tail(trace))
    ELSE IF Head(trace).ev = "share"
    THEN <<Head(trace).info>> \o Enqueued(Tail(trace))
    ELSE Enqueued(Tail(trace))

\* The step of a call holds what the call pushed, once and in order, and
\* the call leaves both queues empty.
Drained(r) ==
    /\ r.step.output = Pushed(r.s.trace)
    /\ r.step.messages = Enqueued(r.s.trace)
    /\ r.s.output = << >>
    /\ r.s.messages = << >>

\* C19: every batch and every message a call pushes to the internal queues
\* is returned in the step of that same call, exactly once, and both
\* internal queues are empty when the call returns, also when it fails
\* after emitting a batch or enqueuing messages.
C19_QueuesDrained ==
    \A n \in DOMAIN hb :
        /\ hb[n].output = << >>
        /\ hb[n].messages = << >>
        /\ Drained(input(hb[n], "x"))
        /\ \A sender \in SpecSenders : \A message \in SpecMessages(hb[n], sender) :
              Drained(handle_message(hb[n], sender, message))

\* A map without its entries of the epochs in keys.
Without(map, keys) == [e \in (DOMAIN map) \ keys |-> map[e]]

\* The event of trace that closes the advancement opened by event i: the
\* first "advanced" event after it.
Closing(trace, i) == MinOf({j \in Events(trace, "advanced") : j > i})

\* What one advancement does: before is the instance when update_epoch
\* starts, after the instance when its loop over the deferred messages ends.
Advancement(before, after) ==
    LET e == before.epoch
        spared == {e, e + 1 + before.max_future_epochs}
    IN  /\ after.epoch = e + 1
        /\ ~Has(after.ciphertexts, e)
        /\ ~Has(after.received_shares, e)
        /\ after.decrypted_contributions = EmptyMap
        /\ ~after.has_input
        /\ Without(after.received_shares, spared) = Without(before.received_shares, spared)
        /\ Without(after.incoming_queue, spared) = Without(before.incoming_queue, spared)

Advancements(r) ==
    \A i \in Events(r.s.trace, "advance") :
        /\ \E j \in Events(r.s.trace, "advanced") : j > i
        /\ Advancement(r.s.trace[i].info, r.s.trace[Closing(r.s.trace, i)].info)

NoPastEntries(s) ==
    /\ \A e \in DOMAIN s.ciphertexts : e >= s.epoch
    /\ \A e \in DOMAIN s.received_shares : e >= s.epoch

\* C20: each advancement from epoch e to e + 1 removes ciphertexts[e] and
\* received_shares[e], empties decrypted_contributions, sets has_input to
\* false, and leaves the entries of received_shares and incoming_queue of
\* epochs other than e and e + 1 + max_future_epochs untouched; after every
\* entry point no key of ciphertexts or received_shares is less than the
\* current epoch.
C20_EpochAdvancement ==
    \A n \in DOMAIN hb :
        /\ NoPastEntries(hb[n])
        /\ LET r == input(hb[n], "x")
           IN  Advancements(r) /\ NoPastEntries(r.s)
        /\ \A sender \in KnownSenders : \A message \in SpecMessages(hb[n], sender) :
              LET r == handle_message(hb[n], sender, message)
              IN  Advancements(r) /\ NoPastEntries(r.s)

\* A call advances from epoch 1 while the instance holds its input, a
\* decrypted contribution, shares of epoch 1 and shares of epoch 2.
C20_Witness ==
    \E n \in DOMAIN hb : \E sender \in KnownSenders :
    \E message \in SpecMessages(hb[n], sender) :
        LET r == handle_message(hb[n], sender, message)
        IN  \E i \in Events(r.s.trace, "advance") :
                LET before == r.s.trace[i].info
                IN  /\ before.epoch = 1
                    /\ before.has_input
                    /\ before.decrypted_contributions # EmptyMap
                    /\ Has(before.ciphertexts, 1)
                    /\ Has(before.received_shares, 1)
                    /\ Has(before.received_shares, 2)
                    /\ Has(r.s.received_shares, 2)

\* Every decrypted proposer has a known ciphertext of the current epoch and
\* more than f stored shares.
ThresholdRule(s) ==
    \A p \in DOMAIN s.decrypted_contributions :
        /\ Has(s.ciphertexts, s.epoch)
        /\ Has(s.ciphertexts[s.epoch], p)
        /\ Cardinality(DOMAIN StoredShares(s, s.epoch, p)) > s.netinfo.num_faulty

\* The rule where a call completes an epoch: when update_epoch starts.
ThresholdAtAdvance(r) ==
    \A i \in Events(r.s.trace, "advance") : ThresholdRule(r.s.trace[i].info)

\* C21: each proposer p in decrypted_contributions has a known ciphertext in
\* ciphertexts[epoch] and strictly more than f shares of distinct senders in
\* received_shares[epoch][p]; a proposer with f or fewer stored shares, or
\* without a known ciphertext, is never decrypted.
C21_ThresholdRule ==
    \A n \in DOMAIN hb :
        /\ ThresholdRule(hb[n])
        /\ ThresholdAtAdvance(input(hb[n], "x"))
        /\ \A sender \in KnownSenders : \A message \in SpecMessages(hb[n], sender) :
              ThresholdAtAdvance(handle_message(hb[n], sender, message))

\* A validator rests with proposer 2 decrypted from two shares while
\* proposer 1, accepted too, has one share only and is not decrypted.
C21_Witness ==
    \E n \in DOMAIN hb :
        LET s == hb[n]
        IN  /\ Has(s.decrypted_contributions, 2)
            /\ Has(s.ciphertexts, s.epoch)
            /\ Has(s.ciphertexts[s.epoch], 1)
            /\ ~Has(s.decrypted_contributions, 1)
            /\ Cardinality(DOMAIN StoredShares(s, s.epoch, 1)) = s.netinfo.num_faulty
            /\ Cardinality(DOMAIN StoredShares(s, s.epoch, 2)) = s.netinfo.num_faulty + 1

\* ciphertexts[epoch] is defined and decrypted_contributions has its key set.
Complete(s) ==
    /\ s.epoch \in DOMAIN s.ciphertexts
    /\ DOMAIN s.ciphertexts[s.epoch] = DOMAIN s.decrypted_contributions

\* Every batch a call pushes is pushed in a state that is complete for the
\* epoch of the batch (the state update_epoch starts in, right after the
\* push), and holds contributions of accepted proposers only.
BatchOnlyWhenComplete(r) ==
    \A i \in Events(r.s.trace, "batch") :
        /\ i + 1 \in Events(r.s.trace, "advance")
        /\ LET before == r.s.trace[i + 1].info
               batch == r.s.trace[i].info
           IN  /\ before.epoch = batch.epoch
               /\ Complete(before)
               /\ DOMAIN batch.contributions \subseteq DOMAIN before.decrypted_contributions

\* C22: a batch for the current epoch is emitted when and only when
\* ciphertexts[epoch] is defined and decrypted_contributions has exactly
\* the same key set: no batch is pushed in any other state, and no entry
\* point returns in a state where the two key sets are equal.
C22_BatchWhenComplete ==
    \A n \in DOMAIN hb :
        /\ ~Complete(hb[n])
        /\ LET r == input(hb[n], "x")
           IN  BatchOnlyWhenComplete(r) /\ ~Complete(r.s)
        /\ \A sender \in KnownSenders : \A message \in SpecMessages(hb[n], sender) :
              LET r == handle_message(hb[n], sender, message)
              IN  BatchOnlyWhenComplete(r) /\ ~Complete(r.s)

\* An instance rests with the ciphertexts of its epoch registered and one of
\* them undecrypted; the share that completes the decryption arrives and the
\* call pushes the batch of that epoch.
C22_Witness ==
    \E n \in DOMAIN hb : \E sender \in KnownSenders :
    \E message \in SpecMessages(hb[n], sender) :
        LET s == hb[n]
            r == handle_message(s, sender, message)
        IN  /\ message.content.kind = "DecryptionShare"
            /\ Has(s.ciphertexts, s.epoch)
            /\ DOMAIN s.decrypted_contributions # DOMAIN s.ciphertexts[s.epoch]
            /\ \E i \in Events(r.s.trace, "batch") :
                  /\ r.s.trace[i].epoch = s.epoch
                  /\ r.s.trace[i].info.contributions # EmptyMap
            /\ r.ok

\* The epoch of the instance when event i of a call from s is recorded.
EpochAt(s, trace, i) ==
    s.epoch + Cardinality({j \in Events(trace, "advance") : j < i})

\* The outputs the ACS instances produce in a call: the events of an ACS
\* step with an output.
Produced(trace) ==
    {i \in Events(trace, "acs_message") \cup Events(trace, "acs_input") :
        trace[i].info # << >>}

\* An output is discarded only if its instance is of a past epoch; an
\* output of the current or a later epoch is consumed and registered as the
\* ciphertexts of the epoch of its instance.  process_output records the
\* messages of the ACS step between the step and its output.
OutputsKept(s, r) ==
    /\ \A i \in Events(r.s.trace, "discarded") :
          r.s.trace[i].epoch < EpochAt(s, r.s.trace, i)
    /\ \A i \in Produced(r.s.trace) :
          r.s.trace[i].epoch >= EpochAt(s, r.s.trace, i) =>
              /\ i + 2 \in Events(r.s.trace, "consumed")
              /\ r.s.trace[i + 2].epoch = r.s.trace[i].epoch
              /\ r.s.trace[i + 2].info = Head(r.s.trace[i].info)
    /\ \A k \in Events(r.s.trace, "consumed") :
          /\ k - 2 \in Produced(r.s.trace)
          /\ r.s.trace[k - 2].epoch = r.s.trace[k].epoch
          /\ \E j \in Events(r.s.trace, "ciphertexts") :
                j > k /\ r.s.trace[j].epoch = r.s.trace[k].epoch

\* C23: an ACS output is discarded only when it comes from the instance of
\* an epoch strictly less than the current epoch; an output of the instance
\* of the current epoch or of a later epoch in the window is never lost, and
\* every consumed output is registered as the ciphertexts of the epoch of
\* the instance that produced it.
C23_OutputNeverLost ==
    \A n \in DOMAIN hb :
        /\ OutputsKept(hb[n], input(hb[n], "x"))
        /\ \A sender \in KnownSenders : \A message \in SpecMessages(hb[n], sender) :
              OutputsKept(hb[n], handle_message(hb[n], sender, message))

\* The messages of every ACS step of a call are queued with the targets the
\* ACS gave them, as CommonSubset contents tagged with the epoch of the
\* instance that made the step (the event before records that epoch).
MessagesTagged(r) ==
    \A i \in Events(r.s.trace, "messages") :
        LET e == r.s.trace[i - 1].epoch
            given == r.s.trace[i].info.given
            queued == r.s.trace[i].info.queued
        IN  /\ r.s.trace[i - 1].ev \in {"acs_message", "acs_input"}
            /\ Len(queued) = Len(given)
            /\ \A k \in 1..Len(given) :
                  /\ queued[k].target = given[k].target
                  /\ queued[k].message = with_epoch(CommonSubsetContent(given[k].message), e)

\* C24: every outgoing CommonSubset message produced by the ACS instance of
\* epoch e keeps the target the ACS gave it and is tagged with epoch e, on
\* every call path: local input, a CommonSubset message handled directly,
\* and a deferred CommonSubset message admitted during an advancement.
C24_MessagesTaggedWithInstanceEpoch ==
    \A n \in DOMAIN hb :
        /\ MessagesTagged(input(hb[n], "x"))
        /\ \A sender \in KnownSenders : \A message \in SpecMessages(hb[n], sender) :
              MessagesTagged(handle_message(hb[n], sender, message))

\* The proposers of an ACS result whose bytes are a ciphertext that passes
\* its check.
ValidProposers(vals) ==
    {p \in DOMAIN vals : /\ DeserializeCiphertext(vals[p]).ok
                         /\ CiphertextVerify(DeserializeCiphertext(vals[p]).value)}

\* In s the ACS instance of the next epoch has completed and more than f
\* shares are held for each of its proposers with a valid ciphertext.
NextEpochReady(s) ==
    /\ s.max_future_epochs >= 1
    /\ Has(s.common_subsets, s.epoch + 1)
    /\ CommonSubsetTerminated(s.common_subsets[s.epoch + 1])
    /\ \A p \in ValidProposers(s.common_subsets[s.epoch + 1].vals) :
          Cardinality(DOMAIN StoredShares(s, s.epoch + 1, p)) > s.netinfo.num_faulty

\* A call that pushes the batch of epoch e while the next epoch is ready
\* pushes the batch of epoch e + 1 too.
Cascades(r) ==
    \A i \in Events(r.s.trace, "batch") :
        (/\ i + 1 \in Events(r.s.trace, "advance")
         /\ NextEpochReady(r.s.trace[i + 1].info))
        => \E j \in Events(r.s.trace, "batch") :
              j > i /\ r.s.trace[j].epoch = r.s.trace[i].epoch + 1

\* C25: with max_future_epochs >= 1, when the batch for epoch e is emitted
\* and the ACS instance of epoch e + 1 has already completed and more than
\* f shares are held for each of its proposers, the advancement emits the
\* batch for e + 1 in the same call.
C25_Cascade ==
    \A n \in DOMAIN hb :
        /\ Cascades(input(hb[n], "x"))
        /\ \A sender \in KnownSenders : \A message \in SpecMessages(hb[n], sender) :
              Cascades(handle_message(hb[n], sender, message))

\* The window of an instance ends at epoch + max_future_epochs: deferred
\* messages lie beyond it, ACS instances and stored shares within it.
WithinWindow(s) ==
    /\ \A e \in DOMAIN s.incoming_queue : e > s.epoch + s.max_future_epochs
    /\ \A e \in DOMAIN s.common_subsets : e <= s.epoch + s.max_future_epochs
    /\ \A e \in DOMAIN s.received_shares : e <= s.epoch + s.max_future_epochs

\* C26: after every entry point, every key of incoming_queue is strictly
\* greater than epoch + max_future_epochs, and no ACS instance and no
\* received_shares entry exists for an epoch greater than
\* epoch + max_future_epochs, whatever epochs peers put in their messages.
C26_WindowBound ==
    \A n \in DOMAIN hb : WithinWindow(hb[n])

\* An instance advanced and admitted the deferred messages of the last epoch
\* of its window: they left the queue and made an ACS instance and a
\* received_shares entry of that epoch.
C26_Witness ==
    \E n \in DOMAIN hb :
        LET s == hb[n]
        IN  /\ s.epoch > 0
            /\ Has(s.common_subsets, s.epoch + s.max_future_epochs)
            /\ Has(s.received_shares, s.epoch + s.max_future_epochs)
            /\ ~Has(s.incoming_queue, s.epoch + s.max_future_epochs)

\* No proposer with a known ciphertext of the current epoch and more than f
\* stored shares is missing from decrypted_contributions.
NotStalled(s) ==
    Has(s.ciphertexts, s.epoch) =>
        \A p \in DOMAIN s.ciphertexts[s.epoch] :
            Cardinality(DOMAIN StoredShares(s, s.epoch, p)) > s.netinfo.num_faulty
                => Has(s.decrypted_contributions, p)

\* C27: after every entry point there is no proposer p with a ciphertext in
\* ciphertexts[epoch] and more than f shares in received_shares[epoch][p]
\* that is missing from decrypted_contributions, shares stored before the
\* ACS output arrived or before the epoch became current included.
C27_NoStalledDecryption ==
    \A n \in DOMAIN hb :
        /\ NotStalled(hb[n])
        /\ NotStalled(input(hb[n], "x").s)
        /\ \A sender \in KnownSenders : \A message \in SpecMessages(hb[n], sender) :
              NotStalled(handle_message(hb[n], sender, message).s)

\* The share of validator 2 for proposer 2 was stored before the ACS output
\* arrived; the call that registers the ciphertexts decrypts proposer 2 from
\* it and the validator's own share, and returns waiting for proposer 1.
C27_Witness ==
    \E n \in DOMAIN hb : \E sender \in KnownSenders :
    \E message \in SpecMessages(hb[n], sender) :
        LET s == hb[n]
            r == handle_message(s, sender, message)
        IN  /\ ~Has(s.ciphertexts, s.epoch)
            /\ Has(StoredShares(s, s.epoch, 2), 2)
            /\ message.content.kind = "CommonSubset"
            /\ r.ok
            /\ r.s.epoch = s.epoch
            /\ Has(r.s.ciphertexts, r.s.epoch)
            /\ Has(r.s.decrypted_contributions, 2)
            /\ DOMAIN r.s.ciphertexts[r.s.epoch] = {1, 2}
            /\ ~Has(r.s.decrypted_contributions, 1)

====
